---- MODULE Spec2Model ----
(***************************************************************************)
(* Command-driven combat tracker (src/main.py, class MobTrackerApp).       *)
(* The state is the two combatant lists self.pcs and self.mobs; every      *)
(* action is one submitted command line, run to completion by              *)
(* on_input_submitted (handler, trailing XP recomputation, exception       *)
(* handling of the dispatcher).                                            *)
(***************************************************************************)
EXTENDS Integers, Sequences, FiniteSets, TLC

VARIABLES
    pcs,       \* self.pcs: sequence of PC records
    mobs,      \* self.mobs: sequence of Mob records
    last,      \* the command line handled last, and how the dispatcher ended it
    prePcs,    \* self.pcs as it was when that command was submitted
    preMobs,   \* self.mobs as it was when that command was submitted
    statusSet, \* history: some `set status` command has succeeded
    steps      \* number of command lines submitted so far

vars == <<pcs, mobs, last, prePcs, preMobs, statusSet, steps>>

----------------------------------------------------------------------------
(* Bounds of the exploration *)

\* number of command lines submitted in one run of Spec
MaxSteps == 2
\* number of command lines submitted in one run of SpecCombat
MaxCombatSteps == 3
\* number of command lines submitted in one run of SpecMorale
MaxMoraleSteps == 3
\* number of command lines submitted in one run of SpecRoster
MaxRosterSteps == 3
\* number of command lines submitted in one run of SpecNames
MaxNameSteps == 4
\* largest index argument typed by the operator
MaxIndex == 7

----------------------------------------------------------------------------
(* Command-line tokens.  Every argument reaches a handler as a string; a   *)
(* token that a handler passes to int() is modelled by what int() makes of *)
(* it: an integer, or a ValueError.                                        *)

\* str(n) for the integers the operator types or the program formats
NumText(n) ==
    CASE n = 0 -> "0" [] n = 1 -> "1" [] n = 2 -> "2" [] n = 3 -> "3"
      [] n = 4 -> "4" [] n = 5 -> "5" [] n = 6 -> "6" [] n = 7 -> "7"
      [] n = 8 -> "8" [] n = 9 -> "9" [] n = 10 -> "10" [] n = 11 -> "11"
      [] n = 12 -> "12" [] n = 15 -> "15"
      [] n = 30 -> "30" [] n = 40 -> "40" [] n = -1 -> "-1" [] n = -4 -> "-4"
      [] n = -5 -> "-5" [] n = -10 -> "-10"

\* a token that int() accepts, and one that makes it raise ValueError
Num(n) == [text |-> NumText(n), isnum |-> TRUE, v |-> n]
Word(w) == [text |-> w, isnum |-> FALSE, v |-> 0]
NaN == Word("x")

\* str.lower() on the words that occur
LowerWord(w) ==
    CASE w \in {"Goblin", "goblin", "GOBLIN"} -> "goblin"
      [] w \in {"Orc", "orc"} -> "orc"
      [] w \in {"Bugbear"} -> "bugbear"
      [] w \in {"Aldric", "aldric"} -> "aldric"
      [] w \in {"Mira"} -> "mira"
      [] w \in {"Thorin"} -> "thorin"
      [] w \in {"Wolf", "WOLF", "wolf"} -> "wolf"
      [] w \in {"pc", "PC", "Pc"} -> "pc"
      [] w \in {"mob", "MOB", "Mob"} -> "mob"
      [] w \in {"braveness", "Braveness"} -> "braveness"
      [] w \in {"boldness", "BOLDNESS"} -> "boldness"
      [] w \in {"panic", "Panic"} -> "panic"
      [] w \in {"rally", "RALLY"} -> "rally"
      [] w \in {"morale", "Morale"} -> "morale"
      [] w \in {"min_hp", "MIN_HP"} -> "min_hp"
      [] w \in {"stunned", "Stunned"} -> "stunned"
      [] w \in {"morale_status", "Morale_Status"} -> "morale_status"
      [] w \in {"status", "STATUS"} -> "status"
      [] w \in {"true", "TRUE", "True"} -> "true"
      [] w \in {"false", "False"} -> "false"
      [] w \in {"yes", "YES"} -> "yes"
      [] w \in {"no", "No"} -> "no"
      [] w \in {"on", "ON"} -> "on"
      [] w \in {"off", "OFF"} -> "off"
      [] w \in {"normal", "Normal", "NORMAL"} -> "normal"
      [] w \in {"panicked", "Panicked"} -> "panicked"
      [] w \in {"routed", "ROUTED", "Routed"} -> "routed"
      [] w \in {"alive", "Alive", "ALIVE"} -> "alive"
      [] w \in {"defeated", "Defeated", "DEFEATED"} -> "defeated"
      [] w \in {"pcs", "PCS"} -> "pcs"
      [] w \in {"mobs", "Mobs"} -> "mobs"
      [] w \in {"all", "ALL"} -> "all"
      [] w \in {"calculate", "Calculate"} -> "calculate"
      [] w \in {"show", "SHOW"} -> "show"
      [] OTHER -> w

\* str.capitalize() on the lower-case literals _command_set stores
Capitalize(w) ==
    CASE w = "normal" -> "Normal" [] w = "panicked" -> "Panicked"
      [] w = "routed" -> "Routed" [] w = "alive" -> "Alive"
      [] w = "defeated" -> "Defeated"

\* str.title() on the names the operator types, as the sequence of its words
TitleName(raw) ==
    CASE raw \in {"goblin", "GOBLIN"} -> <<"Goblin">>
      [] raw \in {"wolf", "WOLF"} -> <<"Wolf">>
      [] raw \in {"aldric"} -> <<"Aldric">>
      [] raw \in {"Orc", "orc"} -> <<"Orc">>
      [] raw \in {"orc 2"} -> <<"Orc", "2">>

Max2(a, b) == IF a >= b THEN a ELSE b
Min2(a, b) == IF a <= b THEN a ELSE b

----------------------------------------------------------------------------
(* Data model: dataclasses Mob and PC.  everLow is a history field, not a  *)
(* field of the program: hp <= min_hp has held at some point since the     *)
(* combatant was created.                                                  *)

Mob(name, max_hp, morale) ==
    [name |-> name, max_hp |-> max_hp, hp |-> max_hp, status |-> "Alive",
     stunned |-> FALSE, morale |-> morale, morale_status |-> "Normal",
     min_hp |-> 0, everLow |-> (max_hp <= 0)]

PC(name, max_hp, morale) ==
    [name |-> name, max_hp |-> max_hp, hp |-> max_hp, status |-> "Alive",
     stunned |-> FALSE, morale |-> morale, morale_status |-> "Normal",
     min_hp |-> -10, damage_dealt |-> 0, damage_taken |-> 0,
     xp_damage_taken |-> 0, xp_damage_dealt |-> 0, xp_bonus |-> 0,
     total_xp |-> 0, everLow |-> (max_hp <= -10)]

MobDefaultMorale == 7
PCDefaultMorale == 9

\* history bookkeeping after a command: record hp <= min_hp where it holds now
Observe(s) == [i \in 1..Len(s) |-> [s[i] EXCEPT !.everLow = @ \/ (s[i].hp <= s[i].min_hp)]]

----------------------------------------------------------------------------
(* Index resolution, the lookup every index-taking handler repeats:        *)
(*   entity_index = int(index) - 1                                         *)
(*   if entity_index < len(self.pcs): self.pcs[entity_index]               *)
(*   elif entity_index < len(self.pcs) + len(self.mobs): self.mobs[...]    *)
(*   else: invalid                                                         *)
(* A negative entity_index takes the first branch and Python indexes the   *)
(* list from its end, or raises IndexError when it is out of range.        *)
(* Result kinds: "pc"/"mob" with the 1-based position in that list,        *)
(* "invalid" (handler reports and returns False), "raise" (IndexError      *)
(* leaves the handler).                                                    *)

\* faulty variant: the mobs are counted from the end of their list
ResolveIndexMobsReversed(index, p, m) ==
    IF ~index.isnum THEN [kind |-> "invalid", pos |-> 0]
    ELSE LET e == index.v - 1 IN
         IF e < Len(p)
         THEN IF e >= 0 THEN [kind |-> "pc", pos |-> e + 1]
              ELSE IF -e <= Len(p) THEN [kind |-> "pc", pos |-> Len(p) + e + 1]
              ELSE [kind |-> "raise", pos |-> 0]
         ELSE IF e < Len(p) + Len(m)
              THEN [kind |-> "mob", pos |-> Len(m) - (e - Len(p))]
              ELSE [kind |-> "invalid", pos |-> 0]

ResolveIndex(index, p, m) ==
    IF ~index.isnum THEN [kind |-> "invalid", pos |-> 0]
    ELSE LET e == index.v - 1 IN
         IF e < Len(p)
         THEN IF e >= 0 THEN [kind |-> "pc", pos |-> e + 1]
              ELSE IF -e <= Len(p) THEN [kind |-> "pc", pos |-> Len(p) + e + 1]
              ELSE [kind |-> "raise", pos |-> 0]
         ELSE IF e < Len(p) + Len(m)
              THEN [kind |-> "mob", pos |-> e - Len(p) + 1]
              ELSE [kind |-> "invalid", pos |-> 0]

----------------------------------------------------------------------------
(* Combat resolution *)

\* faulty variant: the stun test reads the hp after the subtraction
ApplyDamageStunAfter(target, damage) ==
    LET hp1 == target.hp - damage
        stun == (hp1 > 0 /\ 4 * damage >= hp1) \/ hp1 < 0
    IN [target EXCEPT !.stunned = IF stun THEN TRUE ELSE @,
                      !.hp = hp1,
                      !.status = IF hp1 <= target.min_hp THEN "Defeated" ELSE @]

\* faulty variant: the status follows the hp both ways
ApplyDamageRevives(target, damage) ==
    LET stun == (target.hp > 0 /\ 4 * damage >= target.hp) \/ target.hp < 0
        hp1 == target.hp - damage
    IN [target EXCEPT !.stunned = IF stun THEN TRUE ELSE @,
                      !.hp = hp1,
                      !.status = IF hp1 <= target.min_hp THEN "Defeated" ELSE "Alive"]

\* faulty variant: the flag follows the stun test, so a light hit clears it
ApplyDamageStunFollows(target, damage) ==
    LET stun == (target.hp > 0 /\ 4 * damage >= target.hp) \/ target.hp < 0
        hp1 == target.hp - damage
    IN [target EXCEPT !.stunned = stun,
                      !.hp = hp1,
                      !.status = IF hp1 <= target.min_hp THEN "Defeated" ELSE @]

\* _apply_damage: stun test on the hp before the subtraction
\* (damage >= hp * 0.25 is 4 * damage >= hp on integers), then the
\* subtraction, then the defeat test.
ApplyDamage(target, damage) ==
    LET stun == (target.hp > 0 /\ 4 * damage >= target.hp) \/ target.hp < 0
        hp1 == target.hp - damage
    IN [target EXCEPT !.stunned = IF stun THEN TRUE ELSE @,
                      !.hp = hp1,
                      !.status = IF hp1 <= target.min_hp THEN "Defeated" ELSE @]

----------------------------------------------------------------------------
(* Experience accounting *)

RECURSIVE SumDamageTaken(_)
\* sum(pc.damage_taken for pc in self.pcs if pc.status != "Defeated")
SumDamageTaken(p) ==
    IF p = <<>> THEN 0
    ELSE (IF Head(p).status # "Defeated" THEN Head(p).damage_taken ELSE 0)
         + SumDamageTaken(Tail(p))

\* len([p for p in self.pcs if p.status != "Defeated"])
AlivePcs(p) == Cardinality({i \in 1..Len(p) : p[i].status # "Defeated"})

\* faulty variant: total_xp accumulates over recomputations
RecalculateOneAccumulating(pc, total_party_damage_taken, alive) ==
    LET taken == IF pc.status = "Defeated" THEN 0 ELSE pc.damage_taken * 20
        dealt == IF pc.status = "Defeated" THEN 0 ELSE pc.damage_dealt * 10
        bonus == IF pc.status = "Defeated" THEN 0
                 ELSE IF alive > 0 THEN (total_party_damage_taken * 20) \div alive
                 ELSE 0
    IN [pc EXCEPT !.xp_damage_taken = taken,
                  !.xp_damage_dealt = dealt,
                  !.xp_bonus = bonus,
                  !.total_xp = @ + taken + dealt + bonus]

\* the body of the loop of _recalculate_xp for one pc
RecalculateOne(pc, total_party_damage_taken, alive) ==
    LET taken == IF pc.status = "Defeated" THEN 0 ELSE pc.damage_taken * 20
        dealt == IF pc.status = "Defeated" THEN 0 ELSE pc.damage_dealt * 10
        bonus == IF pc.status = "Defeated" THEN 0
                 ELSE IF alive > 0 THEN (total_party_damage_taken * 20) \div alive
                 ELSE 0
    IN [pc EXCEPT !.xp_damage_taken = taken,
                  !.xp_damage_dealt = dealt,
                  !.xp_bonus = bonus,
                  !.total_xp = taken + dealt + bonus]

\* faulty variant: the bonus is split over all PCs, Defeated ones included
RecalculateXpOverAll(p) ==
    LET total == SumDamageTaken(p)
    IN [i \in 1..Len(p) |-> RecalculateOne(p[i], total, Len(p))]

\* _recalculate_xp
RecalculateXp(p) ==
    LET total == SumDamageTaken(p)
        alive == AlivePcs(p)
    IN [i \in 1..Len(p) |-> RecalculateOne(p[i], total, alive)]

----------------------------------------------------------------------------
(* Handlers.  Each maps the lists and the argument tokens to the lists     *)
(* after the handler and the way on_input_submitted ends:                  *)
(*   "ok"        handler returned True (refresh)                           *)
(*   "error"     handler reported an error and returned False              *)
(*   "exception" handler raised; the dispatcher's except clause reported   *)
(*   "info"      handler only printed and returned False (help)            *)
(*   "unknown"   no handler for the first token; reported                  *)
(*   "empty"     empty line; the dispatcher returned at once               *)
(* The display is refreshed exactly when the result is "ok".  The `exit`   *)
(* command ends the application and is not a step of the model.            *)

Outcome(p, m, r) == [pcs |-> p, mobs |-> m, result |-> r]

\* faulty variant: plain damage counts as damage taken by a PC
CommandDamageCounted(p, m, index, amount) ==
    LET r == ResolveIndex(index, p, m) IN
    IF r.kind = "raise" THEN Outcome(p, m, "exception")
    ELSE IF r.kind = "invalid" THEN Outcome(p, m, "error")
    ELSE IF ~amount.isnum THEN Outcome(p, m, "error")
    ELSE LET p1 == IF r.kind = "pc"
                   THEN [p EXCEPT ![r.pos] =
                            [ApplyDamage(@, amount.v) EXCEPT !.damage_taken = @ + amount.v]]
                   ELSE p
             m1 == IF r.kind = "mob"
                   THEN [m EXCEPT ![r.pos] = ApplyDamage(@, amount.v)] ELSE m
         IN Outcome(RecalculateXp(p1), m1, "ok")

\* faulty variant: plain damage does not recompute XP
CommandDamageStale(p, m, index, amount) ==
    LET r == ResolveIndex(index, p, m) IN
    IF r.kind = "raise" THEN Outcome(p, m, "exception")
    ELSE IF r.kind = "invalid" THEN Outcome(p, m, "error")
    ELSE IF ~amount.isnum THEN Outcome(p, m, "error")
    ELSE LET p1 == IF r.kind = "pc"
                   THEN [p EXCEPT ![r.pos] = ApplyDamage(@, amount.v)] ELSE p
             m1 == IF r.kind = "mob"
                   THEN [m EXCEPT ![r.pos] = ApplyDamage(@, amount.v)] ELSE m
         IN Outcome(p1, m1, "ok")

\* _command_damage
CommandDamage(p, m, index, amount) ==
    LET r == ResolveIndex(index, p, m) IN
    IF r.kind = "raise" THEN Outcome(p, m, "exception")
    ELSE IF r.kind = "invalid" THEN Outcome(p, m, "error")
    ELSE IF ~amount.isnum THEN Outcome(p, m, "error")
    ELSE LET p1 == IF r.kind = "pc"
                   THEN [p EXCEPT ![r.pos] = ApplyDamage(@, amount.v)] ELSE p
             m1 == IF r.kind = "mob"
                   THEN [m EXCEPT ![r.pos] = ApplyDamage(@, amount.v)] ELSE m
         IN Outcome(RecalculateXp(p1), m1, "ok")

\* faulty variant: the target's hit is added to its damage_dealt
CommandCombatMiscounted(p, m, attacker_index, target_index, damage_amount) ==
    IF ~attacker_index.isnum \/ ~target_index.isnum \/ ~damage_amount.isnum
    THEN Outcome(p, m, "error")
    ELSE LET a == ResolveIndex(attacker_index, p, m)
             t == ResolveIndex(target_index, p, m)
             damage == damage_amount.v
         IN IF a.kind = "raise" THEN Outcome(p, m, "exception")
            ELSE IF a.kind = "invalid" THEN Outcome(p, m, "error")
            ELSE IF t.kind = "raise" THEN Outcome(p, m, "exception")
            ELSE IF t.kind = "invalid" THEN Outcome(p, m, "error")
            ELSE LET p1 == IF t.kind = "pc"
                           THEN [p EXCEPT ![t.pos] = ApplyDamage(@, damage)] ELSE p
                     m1 == IF t.kind = "mob"
                           THEN [m EXCEPT ![t.pos] = ApplyDamage(@, damage)] ELSE m
                     p2 == IF a.kind = "pc"
                           THEN [p1 EXCEPT ![a.pos].damage_dealt = @ + damage] ELSE p1
                     p3 == IF t.kind = "pc"
                           THEN [p2 EXCEPT ![t.pos].damage_dealt = @ + damage] ELSE p2
                 IN Outcome(RecalculateXp(p3), m1, "ok")

\* _command_combat
CommandCombat(p, m, attacker_index, target_index, damage_amount) ==
    IF ~attacker_index.isnum \/ ~target_index.isnum \/ ~damage_amount.isnum
    THEN Outcome(p, m, "error")
    ELSE LET a == ResolveIndex(attacker_index, p, m)
             t == ResolveIndex(target_index, p, m)
             damage == damage_amount.v
         IN IF a.kind = "raise" THEN Outcome(p, m, "exception")
            ELSE IF a.kind = "invalid" THEN Outcome(p, m, "error")
            ELSE IF t.kind = "raise" THEN Outcome(p, m, "exception")
            ELSE IF t.kind = "invalid" THEN Outcome(p, m, "error")
            ELSE LET p1 == IF t.kind = "pc"
                           THEN [p EXCEPT ![t.pos] = ApplyDamage(@, damage)] ELSE p
                     m1 == IF t.kind = "mob"
                           THEN [m EXCEPT ![t.pos] = ApplyDamage(@, damage)] ELSE m
                     p2 == IF a.kind = "pc"
                           THEN [p1 EXCEPT ![a.pos].damage_dealt = @ + damage] ELSE p1
                     p3 == IF t.kind = "pc"
                           THEN [p2 EXCEPT ![t.pos].damage_taken = @ + damage] ELSE p2
                 IN Outcome(RecalculateXp(p3), m1, "ok")

\* faulty variant: reset zeroes the counters and leaves the XP fields stale
CommandResetStale(p, m) ==
    LET p1 == [i \in 1..Len(p) |-> [p[i] EXCEPT !.damage_dealt = 0, !.damage_taken = 0]]
    IN Outcome(p1, m, "ok")

\* _command_reset
CommandReset(p, m) ==
    LET p1 == [i \in 1..Len(p) |-> [p[i] EXCEPT !.damage_dealt = 0, !.damage_taken = 0]]
    IN Outcome(RecalculateXp(p1), m, "ok")

\* _command_xp; action is "", "calculate", "show" or another word
CommandXp(p, m, action) ==
    LET action_lower == LowerWord(action) IN
    IF action_lower \in {"", "calculate"} THEN Outcome(RecalculateXp(p), m, "ok")
    ELSE IF action_lower = "show" THEN Outcome(p, m, "ok")
    ELSE Outcome(p, m, "error")

\* faulty variant: a passed boldness check adds 1 to morale without the cap
CheckEntityBoldUncapped(entity, check_type_lower, roll) ==
    CASE check_type_lower = "braveness" ->
            IF roll >= entity.morale THEN entity
            ELSE [entity EXCEPT !.morale_status = "Panicked"]
      [] check_type_lower = "boldness" ->
            IF roll >= entity.morale
            THEN [entity EXCEPT !.morale = entity.morale + 1]
            ELSE [entity EXCEPT !.morale_status = "Routed"]
      [] check_type_lower = "panic" ->
            IF roll + 2 >= entity.morale THEN entity
            ELSE [entity EXCEPT !.morale_status = "Panicked"]
      [] check_type_lower = "rally" ->
            IF entity.morale_status = "Normal" THEN entity
            ELSE IF roll >= entity.morale
                 THEN [entity EXCEPT !.morale_status = "Normal"]
                 ELSE entity

\* faulty variant: a rally needs a roll above morale, not at or above it
CheckEntityRallyStrict(entity, check_type_lower, roll) ==
    CASE check_type_lower = "braveness" ->
            IF roll >= entity.morale THEN entity
            ELSE [entity EXCEPT !.morale_status = "Panicked"]
      [] check_type_lower = "boldness" ->
            IF roll >= entity.morale
            THEN [entity EXCEPT !.morale = Min2(12, entity.morale + 1)]
            ELSE [entity EXCEPT !.morale_status = "Routed"]
      [] check_type_lower = "panic" ->
            IF roll + 2 >= entity.morale THEN entity
            ELSE [entity EXCEPT !.morale_status = "Panicked"]
      [] check_type_lower = "rally" ->
            IF entity.morale_status = "Normal" THEN entity
            ELSE IF roll > entity.morale
                 THEN [entity EXCEPT !.morale_status = "Normal"]
                 ELSE entity

\* faulty variant: a panic check compares the bare roll, without the +2
CheckEntityPanicNoBonus(entity, check_type_lower, roll) ==
    CASE check_type_lower = "braveness" ->
            IF roll >= entity.morale THEN entity
            ELSE [entity EXCEPT !.morale_status = "Panicked"]
      [] check_type_lower = "boldness" ->
            IF roll >= entity.morale
            THEN [entity EXCEPT !.morale = Min2(12, entity.morale + 1)]
            ELSE [entity EXCEPT !.morale_status = "Routed"]
      [] check_type_lower = "panic" ->
            IF roll >= entity.morale THEN entity
            ELSE [entity EXCEPT !.morale_status = "Panicked"]
      [] check_type_lower = "rally" ->
            IF entity.morale_status = "Normal" THEN entity
            ELSE IF roll >= entity.morale
                 THEN [entity EXCEPT !.morale_status = "Normal"]
                 ELSE entity

\* faulty variant: a failed panic check also takes 1 from morale
CheckEntityPanicLowersMorale(entity, check_type_lower, roll) ==
    CASE check_type_lower = "braveness" ->
            IF roll >= entity.morale THEN entity
            ELSE [entity EXCEPT !.morale_status = "Panicked"]
      [] check_type_lower = "boldness" ->
            IF roll >= entity.morale
            THEN [entity EXCEPT !.morale = Min2(12, entity.morale + 1)]
            ELSE [entity EXCEPT !.morale_status = "Routed"]
      [] check_type_lower = "panic" ->
            IF roll + 2 >= entity.morale THEN entity
            ELSE [entity EXCEPT !.morale_status = "Panicked",
                                !.morale = Max2(2, entity.morale - 1)]
      [] check_type_lower = "rally" ->
            IF entity.morale_status = "Normal" THEN entity
            ELSE IF roll >= entity.morale
                 THEN [entity EXCEPT !.morale_status = "Normal"]
                 ELSE entity

\* the morale checks of _command_check on the resolved entity, for a
\* supported check type; roll is the value _roll_2d6 returns when the check
\* rolls (a rally of a Normal entity does not roll)
CheckEntity(entity, check_type_lower, roll) ==
    CASE check_type_lower = "braveness" ->
            IF roll >= entity.morale THEN entity
            ELSE [entity EXCEPT !.morale_status = "Panicked"]
      [] check_type_lower = "boldness" ->
            IF roll >= entity.morale
            THEN [entity EXCEPT !.morale = Min2(12, entity.morale + 1)]
            ELSE [entity EXCEPT !.morale_status = "Routed"]
      [] check_type_lower = "panic" ->
            IF roll + 2 >= entity.morale THEN entity
            ELSE [entity EXCEPT !.morale_status = "Panicked"]
      [] check_type_lower = "rally" ->
            IF entity.morale_status = "Normal" THEN entity
            ELSE IF roll >= entity.morale
                 THEN [entity EXCEPT !.morale_status = "Normal"]
                 ELSE entity

CheckTypes == {"braveness", "boldness", "panic", "rally"}

\* _command_check
CommandCheck(p, m, check_type, index, roll) ==
    LET r == ResolveIndex(index, p, m)
        check_type_lower == LowerWord(check_type.text)
    IN IF r.kind = "raise" THEN Outcome(p, m, "exception")
       ELSE IF r.kind = "invalid" THEN Outcome(p, m, "error")
       ELSE IF check_type_lower \notin CheckTypes THEN Outcome(p, m, "error")
       ELSE IF r.kind = "pc"
            THEN Outcome([p EXCEPT ![r.pos] = CheckEntity(@, check_type_lower, roll)], m, "ok")
            ELSE Outcome(p, [m EXCEPT ![r.pos] = CheckEntity(@, check_type_lower, roll)], "ok")

\* faulty variant: a new min_hp at or above the hp also marks the entity
\* Defeated
SetEntityReevaluates(entity, property_name, value) ==
    LET prop == LowerWord(property_name.text)
        val == LowerWord(value.text)
        Fail == [ok |-> FALSE, entity |-> entity]
        Done(e) == [ok |-> TRUE, entity |-> e]
    IN CASE prop = "morale" ->
                IF value.isnum
                THEN Done([entity EXCEPT !.morale = Max2(2, Min2(12, value.v))])
                ELSE Fail
         [] prop = "min_hp" ->
                IF value.isnum
                THEN Done([entity EXCEPT !.min_hp = value.v,
                                         !.status = IF entity.hp <= value.v
                                                    THEN "Defeated" ELSE @])
                ELSE Fail
         [] prop = "stunned" ->
                IF val \in {"true", "yes", "1", "on"}
                THEN Done([entity EXCEPT !.stunned = TRUE])
                ELSE IF val \in {"false", "no", "0", "off"}
                     THEN Done([entity EXCEPT !.stunned = FALSE])
                     ELSE Fail
         [] prop = "morale_status" ->
                IF val \in {"normal", "panicked", "routed"}
                THEN Done([entity EXCEPT !.morale_status = Capitalize(val)])
                ELSE Fail
         [] prop = "status" ->
                IF val \in {"alive", "defeated"}
                THEN Done([entity EXCEPT !.status = Capitalize(val)])
                ELSE Fail
         [] OTHER -> Fail

\* faulty variant: `set morale` stores the integer as typed, without the
\* clamp to [2, 12]
SetEntityUnclamped(entity, property_name, value) ==
    LET prop == LowerWord(property_name.text)
        val == LowerWord(value.text)
        Fail == [ok |-> FALSE, entity |-> entity]
        Done(e) == [ok |-> TRUE, entity |-> e]
    IN CASE prop = "morale" ->
                IF value.isnum
                THEN Done([entity EXCEPT !.morale = value.v])
                ELSE Fail
         [] prop = "min_hp" ->
                IF value.isnum THEN Done([entity EXCEPT !.min_hp = value.v]) ELSE Fail
         [] prop = "stunned" ->
                IF val \in {"true", "yes", "1", "on"}
                THEN Done([entity EXCEPT !.stunned = TRUE])
                ELSE IF val \in {"false", "no", "0", "off"}
                     THEN Done([entity EXCEPT !.stunned = FALSE])
                     ELSE Fail
         [] prop = "morale_status" ->
                IF val \in {"normal", "panicked", "routed"}
                THEN Done([entity EXCEPT !.morale_status = Capitalize(val)])
                ELSE Fail
         [] prop = "status" ->
                IF val \in {"alive", "defeated"}
                THEN Done([entity EXCEPT !.status = Capitalize(val)])
                ELSE Fail
         [] OTHER -> Fail

\* the property chain of _command_set on the resolved entity:
\* [ok |-> the handler goes on to return True, entity |-> the entity after]
SetEntity(entity, property_name, value) ==
    LET prop == LowerWord(property_name.text)
        val == LowerWord(value.text)
        Fail == [ok |-> FALSE, entity |-> entity]
        Done(e) == [ok |-> TRUE, entity |-> e]
    IN CASE prop = "morale" ->
                IF value.isnum
                THEN Done([entity EXCEPT !.morale = Max2(2, Min2(12, value.v))])
                ELSE Fail
         [] prop = "min_hp" ->
                IF value.isnum THEN Done([entity EXCEPT !.min_hp = value.v]) ELSE Fail
         [] prop = "stunned" ->
                IF val \in {"true", "yes", "1", "on"}
                THEN Done([entity EXCEPT !.stunned = TRUE])
                ELSE IF val \in {"false", "no", "0", "off"}
                     THEN Done([entity EXCEPT !.stunned = FALSE])
                     ELSE Fail
         [] prop = "morale_status" ->
                IF val \in {"normal", "panicked", "routed"}
                THEN Done([entity EXCEPT !.morale_status = Capitalize(val)])
                ELSE Fail
         [] prop = "status" ->
                IF val \in {"alive", "defeated"}
                THEN Done([entity EXCEPT !.status = Capitalize(val)])
                ELSE Fail
         [] OTHER -> Fail

\* _command_set
CommandSet(p, m, property_name, index, value) ==
    LET r == ResolveIndex(index, p, m) IN
    IF r.kind = "raise" THEN Outcome(p, m, "exception")
    ELSE IF r.kind = "invalid" THEN Outcome(p, m, "error")
    ELSE LET e == IF r.kind = "pc" THEN p[r.pos] ELSE m[r.pos]
             done == SetEntity(e, property_name, value)
         IN IF ~done.ok THEN Outcome(p, m, "error")
            ELSE IF r.kind = "pc"
                 THEN Outcome([p EXCEPT ![r.pos] = done.entity], m, "ok")
                 ELSE Outcome(p, [m EXCEPT ![r.pos] = done.entity], "ok")

\* _command_unstun
CommandUnstun(p, m, index) ==
    LET r == ResolveIndex(index, p, m) IN
    IF r.kind = "raise" THEN Outcome(p, m, "exception")
    ELSE IF r.kind = "invalid" THEN Outcome(p, m, "error")
    ELSE IF r.kind = "pc"
         THEN Outcome([p EXCEPT ![r.pos].stunned = FALSE], m, "ok")
         ELSE Outcome(p, [m EXCEPT ![r.pos].stunned = FALSE], "ok")

\* faulty variant: pop() without the position, which takes the last element
RemoveAtLast(s, pos) == [i \in 1..(Len(s) - 1) |-> s[i]]

\* list.pop(i) for a position the list has
RemoveAt(s, pos) == [i \in 1..(Len(s) - 1) |-> IF i < pos THEN s[i] ELSE s[i + 1]]

\* _command_remove
CommandRemove(p, m, index) ==
    LET r == ResolveIndex(index, p, m) IN
    IF r.kind = "raise" THEN Outcome(p, m, "exception")
    ELSE IF r.kind = "invalid" THEN Outcome(p, m, "error")
    ELSE IF r.kind = "pc" THEN Outcome(RemoveAt(p, r.pos), m, "ok")
    ELSE Outcome(p, RemoveAt(m, r.pos), "ok")

\* _command_clear
CommandClear(p, m, target) ==
    LET target_lower == LowerWord(target.text) IN
    CASE target_lower = "pcs" -> Outcome(<<>>, m, "ok")
      [] target_lower = "mobs" -> Outcome(p, <<>>, "ok")
      [] target_lower = "all" -> Outcome(<<>>, <<>>, "ok")
      [] OTHER -> Outcome(p, m, "error")

\* faulty variant: the one unsuffixed match keeps its name
DisambiguateNoRename(list, name) ==
    LET matching == {i \in 1..Len(list) :
                        /\ Len(name) = 1
                        /\ LowerWord(Head(list[i].name)) = LowerWord(name[1])}
        count == Cardinality(matching)
    IN IF matching = {} THEN [list |-> list, final_name |-> name]
       ELSE [list |-> list, final_name |-> Append(name, NumText(count + 1))]

\* the duplicate-name handling of _command_add within one list:
\* [list |-> the list with the one unsuffixed match renamed, final_name |-> ...]
Disambiguate(list, name) ==
    LET matching == {i \in 1..Len(list) :
                        /\ Len(name) = 1
                        /\ LowerWord(Head(list[i].name)) = LowerWord(name[1])}
        only == CHOOSE i \in matching : TRUE
        count == Cardinality(matching)
    IN IF matching = {} THEN [list |-> list, final_name |-> name]
       ELSE [list |-> IF count = 1 /\ Len(list[only].name) = 1
                      THEN [list EXCEPT ![only].name = Append(@, "1")]
                      ELSE list,
             final_name |-> Append(name, NumText(count + 1))]

\* faulty variant: the duplicate handling of the mobs runs before the dice
\* are rolled, so a failed roll has already renamed the match
CommandAddRenamesFirst(p, m, name_arg, hp, args) ==
    IF ~hp.ok THEN Outcome(p, Disambiguate(m, TitleName(name_arg.text)).list, "error")
    ELSE LET name == TitleName(name_arg.text)
             typed == args # <<>> /\ LowerWord(args[1].text) \in {"pc", "mob"}
             entity_type == IF typed THEN LowerWord(args[1].text) ELSE "mob"
             rest == IF typed THEN Tail(args) ELSE args
             morale0 == IF rest # <<>> /\ rest[1].isnum
                        THEN Max2(2, Min2(12, rest[1].v))
                        ELSE MobDefaultMorale
         IN IF entity_type = "pc"
            THEN LET d == Disambiguate(p, name)
                     morale == IF Len(rest) = 0 THEN PCDefaultMorale ELSE morale0
                 IN Outcome(Append(d.list, PC(d.final_name, hp.v, morale)), m, "ok")
            ELSE LET d == Disambiguate(m, name)
                 IN Outcome(p, Append(d.list, Mob(d.final_name, hp.v, morale0)), "ok")

\* faulty variant: the morale argument is stored as typed, without the
\* clamp to [2, 12]
CommandAddUnclamped(p, m, name_arg, hp, args) ==
    IF ~hp.ok THEN Outcome(p, m, "error")
    ELSE LET name == TitleName(name_arg.text)
             typed == args # <<>> /\ LowerWord(args[1].text) \in {"pc", "mob"}
             entity_type == IF typed THEN LowerWord(args[1].text) ELSE "mob"
             rest == IF typed THEN Tail(args) ELSE args
             morale0 == IF rest # <<>> /\ rest[1].isnum
                        THEN rest[1].v
                        ELSE MobDefaultMorale
         IN IF entity_type = "pc"
            THEN LET d == Disambiguate(p, name)
                     morale == IF Len(rest) = 0 THEN PCDefaultMorale ELSE morale0
                 IN Outcome(Append(d.list, PC(d.final_name, hp.v, morale)), m, "ok")
            ELSE LET d == Disambiguate(m, name)
                 IN Outcome(p, Append(d.list, Mob(d.final_name, hp.v, morale0)), "ok")

\* _command_add; hp is what _roll_dice does with hp_str: [ok |-> FALSE] when
\* it raises, else [ok |-> TRUE, v |-> the integer]; args are the tokens
\* after hp_str
CommandAdd(p, m, name_arg, hp, args) ==
    IF ~hp.ok THEN Outcome(p, m, "error")
    ELSE LET name == TitleName(name_arg.text)
             typed == args # <<>> /\ LowerWord(args[1].text) \in {"pc", "mob"}
             entity_type == IF typed THEN LowerWord(args[1].text) ELSE "mob"
             rest == IF typed THEN Tail(args) ELSE args
             morale0 == IF rest # <<>> /\ rest[1].isnum
                        THEN Max2(2, Min2(12, rest[1].v))
                        ELSE MobDefaultMorale
         IN IF entity_type = "pc"
            THEN LET d == Disambiguate(p, name)
                     morale == IF Len(rest) = 0 THEN PCDefaultMorale ELSE morale0
                 IN Outcome(Append(d.list, PC(d.final_name, hp.v, morale)), m, "ok")
            ELSE LET d == Disambiguate(m, name)
                 IN Outcome(p, Append(d.list, Mob(d.final_name, hp.v, morale0)), "ok")

----------------------------------------------------------------------------
(* The dispatcher: one submitted line *)

Cmd(name, args) == [cmd |-> name, args |-> args]

\* on_input_submitted, after the handler has produced its outcome; bound is
\* the number of lines the run submits
Submit(c, out, bound) ==
    /\ steps < bound
    /\ steps' = steps + 1
    /\ prePcs' = pcs
    /\ preMobs' = mobs
    /\ pcs' = Observe(out.pcs)
    /\ mobs' = Observe(out.mobs)
    /\ statusSet' = (statusSet \/ (c.cmd = "set" /\ out.result = "ok"
                                   /\ LowerWord(c.args[1].text) = "status"))
    /\ last' = [cmd |-> c.cmd, args |-> c.args, result |-> out.result]

\* the handlers whose signature has required parameters: called with none,
\* handler(*args) raises TypeError, which the dispatcher catches
NeedArgs == {"add", "damage", "check", "unstun", "set", "combat", "remove"}

DamageWith(indexes, amounts, bound) ==
    \E index \in indexes, amount \in amounts :
        Submit(Cmd("damage", <<index, amount>>),
               CommandDamage(pcs, mobs, index, amount), bound)

CombatWith(indexes, amounts, bound) ==
    \E a \in indexes, t \in indexes, amount \in amounts :
        Submit(Cmd("combat", <<a, t, amount>>),
               CommandCombat(pcs, mobs, a, t, amount), bound)

CheckWith(types, indexes, rolls, bound) ==
    \E check_type \in types, index \in indexes, roll \in rolls :
        Submit(Cmd("check", <<check_type, index, Num(roll)>>),
               CommandCheck(pcs, mobs, check_type, index, roll), bound)

SetWith(settings, indexes, bound) ==
    \E s \in settings, index \in indexes :
        Submit(Cmd("set", <<s[1], index, s[2]>>),
               CommandSet(pcs, mobs, s[1], index, s[2]), bound)

UnstunWith(indexes, bound) ==
    \E index \in indexes :
        Submit(Cmd("unstun", <<index>>), CommandUnstun(pcs, mobs, index), bound)

RemoveWith(indexes, bound) ==
    \E index \in indexes :
        Submit(Cmd("remove", <<index>>), CommandRemove(pcs, mobs, index), bound)

ClearWith(targets, bound) ==
    \E target \in targets :
        Submit(Cmd("clear", <<target>>), CommandClear(pcs, mobs, target), bound)

AddWith(names, hps, arglists, bound) ==
    \E name \in names, hp \in hps, args \in arglists :
        Submit(Cmd("add", <<name, hp, args>>),
               CommandAdd(pcs, mobs, name, hp, args), bound)

ResetWith(bound) ==
    Submit(Cmd("reset", <<>>), CommandReset(pcs, mobs), bound)

XpWith(actions, bound) ==
    \E action \in actions :
        Submit(Cmd("xp", <<action>>), CommandXp(pcs, mobs, action), bound)

\* _command_help returns False
HelpWith(bound) ==
    Submit(Cmd("help", <<>>), Outcome(pcs, mobs, "info"), bound)

\* faulty variant: the unknown-command branch leaves should_refresh True
UnknownWithRefresh(bound) ==
    Submit(Cmd("attack", <<>>), Outcome(pcs, mobs, "ok"), bound)

\* a first token that self.commands does not hold
UnknownWith(bound) ==
    Submit(Cmd("attack", <<>>), Outcome(pcs, mobs, "unknown"), bound)

\* an empty line: `if not parts: return`
EmptyWith(bound) ==
    Submit(Cmd("", <<>>), Outcome(pcs, mobs, "empty"), bound)

\* a handler called with too few arguments
TooFewArgsWith(bound) ==
    \E c \in NeedArgs :
        Submit(Cmd(c, <<>>), Outcome(pcs, mobs, "exception"), bound)

----------------------------------------------------------------------------
(* What the operator types *)

RollValues == 2..12
FewRolls == {2, 5, 7, 8, 9, 12}
HpOk(n) == [ok |-> TRUE, v |-> n]
HpFail == [ok |-> FALSE, v |-> 0]

IndexArgs == {NaN} \cup {Num(i) : i \in {-4, 0} \cup 1..MaxIndex}
FewIndexArgs == {NaN, Num(0), Num(1), Num(4), Num(MaxIndex)}
AmountArgs == {NaN, Num(-5), Num(2), Num(10), Num(40)}
CheckArgs == {Word("braveness"), Word("BOLDNESS"), Word("panic"), Word("rally"),
              Word("courage")}
SetArgs == {<<Word("morale"), Num(1)>>, <<Word("Morale"), Num(15)>>,
            <<Word("morale"), Word("high")>>,
            <<Word("min_hp"), Num(-5)>>, <<Word("min_hp"), Num(30)>>,
            <<Word("MIN_HP"), NaN>>,
            <<Word("stunned"), Word("TRUE")>>, <<Word("stunned"), Num(0)>>,
            <<Word("stunned"), Word("maybe")>>,
            <<Word("morale_status"), Word("ROUTED")>>,
            <<Word("morale_status"), Word("panicked")>>,
            <<Word("morale_status"), Word("Normal")>>,
            <<Word("morale_status"), Word("fled")>>,
            <<Word("status"), Word("DEFEATED")>>, <<Word("status"), Word("alive")>>,
            <<Word("status"), Word("dead")>>,
            <<Word("hp"), Num(5)>>}
ClearArgs == {Word("pcs"), Word("Mobs"), Word("ALL"), Word("")}
NameArgs == {Word("goblin"), Word("WOLF"), Word("aldric")}
HpArgs == {HpFail, HpOk(0), HpOk(9)}
AddArgs == {<<>>, <<Word("pc")>>, <<Num(15)>>, <<Word("PC"), Num(1)>>,
            <<Word("pc"), Word("high")>>, <<Word("mob"), Word("high")>>}
XpArgs == {"", "Calculate", "show", "list"}

Damage == DamageWith(IndexArgs, AmountArgs, MaxSteps)
Combat == CombatWith(FewIndexArgs, AmountArgs, MaxSteps)
Check == CheckWith(CheckArgs, FewIndexArgs, FewRolls, MaxSteps)
Set == SetWith(SetArgs, FewIndexArgs, MaxSteps)
Unstun == UnstunWith(IndexArgs, MaxSteps)
Remove == RemoveWith(IndexArgs, MaxSteps)
Clear == ClearWith(ClearArgs, MaxSteps)
Add == AddWith(NameArgs, HpArgs, AddArgs, MaxSteps)
Reset == ResetWith(MaxSteps)
Xp == XpWith(XpArgs, MaxSteps)
Help == HelpWith(MaxSteps)
Unknown == UnknownWith(MaxSteps)
Empty == EmptyWith(MaxSteps)
TooFewArgs == TooFewArgsWith(MaxSteps)

\* MobTrackerApp.__init__
Init ==
    /\ mobs = <<Mob(<<"Goblin">>, 7, MobDefaultMorale),
                Mob(<<"Orc">>, 15, MobDefaultMorale),
                Mob(<<"Bugbear">>, 27, MobDefaultMorale)>>
    /\ pcs = <<PC(<<"Aldric">>, 25, PCDefaultMorale),
               PC(<<"Mira">>, 18, PCDefaultMorale),
               PC(<<"Thorin">>, 30, PCDefaultMorale)>>
    /\ prePcs = pcs
    /\ preMobs = mobs
    /\ last = [cmd |-> "start", args |-> <<>>, result |-> "ok"]
    /\ statusSet = FALSE
    /\ steps = 0

Next ==
    \/ Damage
    \/ Combat
    \/ Check
    \/ Set
    \/ Unstun
    \/ Remove
    \/ Clear
    \/ Add
    \/ Reset
    \/ Xp
    \/ Help
    \/ Unknown
    \/ Empty
    \/ TooFewArgs

Spec == Init /\ [][Next]_vars

----------------------------------------------------------------------------
(* A longer run of the combat commands alone: hits, directed hits, unstun, *)
(* XP recomputation and reset on the first four combatants.                *)

CombatIndexArgs == {Num(1), Num(2), Num(3), Num(4)}
DuelIndexArgs == {Num(1), Num(4)}
CombatAmountArgs == {Num(2), Num(7), Num(10), Num(40)}

CombatDamage == DamageWith(CombatIndexArgs, CombatAmountArgs, MaxCombatSteps)
CombatCombat == CombatWith(DuelIndexArgs, CombatAmountArgs, MaxCombatSteps)
CombatUnstun == UnstunWith(DuelIndexArgs, MaxCombatSteps)
CombatXp == XpWith({"calculate"}, MaxCombatSteps)
CombatReset == ResetWith(MaxCombatSteps)

NextCombat ==
    \/ CombatDamage
    \/ CombatCombat
    \/ CombatUnstun
    \/ CombatXp
    \/ CombatReset

SpecCombat == Init /\ [][NextCombat]_vars

----------------------------------------------------------------------------
(* The morale commands alone: every morale check with every 2d6 roll, on a *)
(* PC and on a mob, between `set` commands that move morale and            *)
(* morale_status.                                                          *)

MoraleCheckArgs == {Word("braveness"), Word("BOLDNESS"), Word("panic"), Word("rally")}
MoraleSetArgs == {<<Word("morale"), Num(2)>>, <<Word("morale"), Num(4)>>,
                  <<Word("morale"), Num(12)>>,
                  <<Word("morale_status"), Word("panicked")>>,
                  <<Word("morale_status"), Word("ROUTED")>>}

MoraleCheck == CheckWith(MoraleCheckArgs, DuelIndexArgs, RollValues, MaxMoraleSteps)
MoraleSet == SetWith(MoraleSetArgs, DuelIndexArgs, MaxMoraleSteps)

NextMorale ==
    \/ MoraleCheck
    \/ MoraleSet

SpecMorale == Init /\ [][NextMorale]_vars

----------------------------------------------------------------------------
(* The roster commands alone: adds of both kinds under names that match    *)
(* and do not match the roster, and removals between them.                 *)

RosterNameArgs == {Word("goblin"), Word("Orc"), Word("orc 2")}
RosterAddArgs == {<<>>, <<Word("pc")>>, <<Num(1)>>, <<Word("pc"), Num(15)>>,
                  <<Word("pc"), Word("high")>>, <<Word("mob"), Word("high")>>}
RosterIndexArgs == {Num(1), Num(4), Num(5)}

RosterAdd == AddWith(RosterNameArgs, {HpOk(9)}, RosterAddArgs, MaxRosterSteps)
RosterAddOther ==
    AddWith({Word("goblin")}, {HpFail, HpOk(0)}, {<<>>, <<Word("pc")>>}, MaxRosterSteps)
RosterRemove == RemoveWith(RosterIndexArgs, MaxRosterSteps)

NextRoster ==
    \/ RosterAdd
    \/ RosterAddOther
    \/ RosterRemove

SpecRoster == Init /\ [][NextRoster]_vars

----------------------------------------------------------------------------
(* Adds under single-word names and removals, from the constructor's       *)
(* roster, whose names are distinct.                                       *)

SingleNameArgs == {Word("goblin"), Word("Orc")}
KindArgs == {<<>>, <<Word("pc")>>}

NamesAdd == AddWith(SingleNameArgs, {HpOk(9)}, KindArgs, MaxNameSteps)
NamesRemove == RemoveWith(RosterIndexArgs, MaxNameSteps)

NextNames ==
    \/ NamesAdd
    \/ NamesRemove

SpecNames == Init /\ [][NextNames]_vars

----------------------------------------------------------------------------
(* Properties.  Each is stated on the state a command leaves behind:       *)
(* `last` is the command, prePcs/preMobs the lists it found, pcs/mobs the  *)
(* lists it left.                                                          *)

Total(p, m) == Len(p) + Len(m)

\* an index token outside [1, total]: non-numeric, zero, negative or too big
BadIndex(tok, p, m) == ~tok.isnum \/ tok.v < 1 \/ tok.v > Total(p, m)

\* the index tokens of the command line handled last
IndexTokens ==
    IF last.args = <<>> THEN {}
    ELSE CASE last.cmd \in {"damage", "remove", "unstun"} -> {last.args[1]}
           [] last.cmd \in {"check", "set"} -> {last.args[2]}
           [] last.cmd = "combat" -> {last.args[1], last.args[2]}
           [] OTHER -> {}

Unchanged == pcs = prePcs /\ mobs = preMobs

\* C1: damage, combat, check, set, remove and unstun report an error and
\* leave both lists and every combatant unchanged when an index argument is
\* non-numeric or outside [1, len(pcs) + len(mobs)], zero and negative
\* integers included.
C1_InvalidIndexRejected ==
    (\E tok \in IndexTokens : BadIndex(tok, prePcs, preMobs))
        => (last.result \in {"error", "exception"} /\ Unchanged)

\* the combatant at a valid 1-based index: PCs first, then mobs
EntityAt(p, m, i) == IF i <= Len(p) THEN p[i] ELSE m[i - Len(p)]

Hit == last.cmd \in {"damage", "combat"} /\ last.result = "ok"
HitTarget == IF last.cmd = "damage" THEN last.args[1] ELSE last.args[2]
HitAmount == IF last.cmd = "damage" THEN last.args[2].v ELSE last.args[3].v

\* the stun condition of the claim, on the hp before the hit
StunRule(hp, amount) == (hp > 0 /\ 4 * amount >= hp) \/ hp < 0

\* C2: a hit turns stunned on exactly when, on the hp before the
\* subtraction, (hp > 0 and 4 * amount >= hp) or hp < 0; otherwise (hp = 0
\* included) the flag keeps its value.  A 7-HP target hit for 2 ends with
\* hp 5, stunned, Alive.
C2_StunRule ==
    (Hit /\ ~BadIndex(HitTarget, prePcs, preMobs)) =>
        LET before == EntityAt(prePcs, preMobs, HitTarget.v)
            after == EntityAt(pcs, mobs, HitTarget.v)
        IN /\ StunRule(before.hp, HitAmount) => after.stunned
           /\ ~StunRule(before.hp, HitAmount) => after.stunned = before.stunned
           /\ (before.hp = 7 /\ HitAmount = 2 /\ before.status = "Alive"
               /\ before.min_hp < 5)
                 => (after.hp = 5 /\ after.stunned /\ after.status = "Alive")

\* reached: a hit on an unstunned combatant whose hp was below 0 stunned it
C2_Witness ==
    /\ Hit
    /\ ~BadIndex(HitTarget, prePcs, preMobs)
    /\ LET before == EntityAt(prePcs, preMobs, HitTarget.v)
           after == EntityAt(pcs, mobs, HitTarget.v)
       IN before.hp < 0 /\ ~before.stunned /\ after.stunned
          /\ 4 * HitAmount < after.max_hp

Combatants == {pcs[i] : i \in 1..Len(pcs)} \cup {mobs[i] : i \in 1..Len(mobs)}

\* C3: as long as no `set status` has run, a combatant is Defeated if and
\* only if its hp was <= its min_hp at some point since its creation.
C3_DefeatedIffEverLow ==
    ~statusSet => \A c \in Combatants : (c.status = "Defeated") <=> c.everLow

\* the combatant `set status` acted on, as <<kind, position>>
StatusTarget ==
    IF last.cmd = "set" /\ last.args # <<>> /\ last.result = "ok"
       /\ LowerWord(last.args[1].text) = "status"
    THEN LET r == ResolveIndex(last.args[2], prePcs, preMobs) IN {<<r.kind, r.pos>>}
    ELSE {}

\* C4: a Defeated combatant is still Defeated after any command that neither
\* removes combatants nor is a `set status` on that combatant.
C4_DefeatedIsTerminal ==
    last.cmd \notin {"remove", "clear"} =>
        /\ \A i \in 1..Len(prePcs) :
              (prePcs[i].status = "Defeated" /\ <<"pc", i>> \notin StatusTarget)
                 => (i <= Len(pcs) /\ pcs[i].status = "Defeated")
        /\ \A i \in 1..Len(preMobs) :
              (preMobs[i].status = "Defeated" /\ <<"mob", i>> \notin StatusTarget)
                 => (i <= Len(mobs) /\ mobs[i].status = "Defeated")

\* reached: a hit of negative amount lifted a Defeated combatant's hp above
\* its min_hp and it is still Defeated
C4_Witness ==
    /\ Hit
    /\ HitAmount < 0
    /\ ~BadIndex(HitTarget, prePcs, preMobs)
    /\ LET before == EntityAt(prePcs, preMobs, HitTarget.v)
           after == EntityAt(pcs, mobs, HitTarget.v)
       IN /\ before.status = "Defeated" /\ before.hp <= before.min_hp
          /\ after.hp > after.min_hp /\ after.status = "Defeated"

\* 1 when the token names the 1-based index i, else 0
Names(tok, i) == IF tok.v = i THEN 1 ELSE 0

\* C5: a combat with valid indices and an integer amount n succeeds, takes n
\* off the target's hp, adds n to the attacker's damage_dealt iff the
\* attacker is a PC and to the target's damage_taken iff the target is a PC
\* (both counters of one PC that attacks itself), and changes no other
\* counter.
C5_CombatCounters ==
    (/\ last.cmd = "combat" /\ last.args # <<>>
     /\ ~BadIndex(last.args[1], prePcs, preMobs)
     /\ ~BadIndex(last.args[2], prePcs, preMobs)
     /\ last.args[3].isnum) =>
        LET a == last.args[1]
            t == last.args[2]
            n == last.args[3].v
        IN /\ last.result = "ok"
           /\ Len(pcs) = Len(prePcs) /\ Len(mobs) = Len(preMobs)
           /\ EntityAt(pcs, mobs, t.v).hp = EntityAt(prePcs, preMobs, t.v).hp - n
           /\ \A i \in 1..Len(pcs) :
                 /\ pcs[i].damage_dealt = prePcs[i].damage_dealt + n * Names(a, i)
                 /\ pcs[i].damage_taken = prePcs[i].damage_taken + n * Names(t, i)

\* reached: a PC attacked itself and both of its counters grew
C5_Witness ==
    /\ last.cmd = "combat" /\ last.result = "ok"
    /\ last.args[1] = last.args[2] /\ last.args[1].v = 1 /\ last.args[3].v > 0
    /\ pcs[1].damage_dealt = prePcs[1].damage_dealt + last.args[3].v
    /\ pcs[1].damage_taken = prePcs[1].damage_taken + last.args[3].v
    /\ prePcs[1].damage_taken > 0

\* the fields a hit may not touch
SameButHit(x, y) ==
    /\ x.name = y.name /\ x.max_hp = y.max_hp /\ x.morale = y.morale
    /\ x.morale_status = y.morale_status /\ x.min_hp = y.min_hp
\* the fields of a combatant that are not derived XP
SameCore(x, y) ==
    /\ SameButHit(x, y)
    /\ x.hp = y.hp /\ x.stunned = y.stunned /\ x.status = y.status
SameCounters(x, y) ==
    x.damage_dealt = y.damage_dealt /\ x.damage_taken = y.damage_taken

\* C6: a plain damage command changes only hp, stunned and status of the
\* combatant it resolves (and derived XP): every PC's damage_dealt and
\* damage_taken, the target's included, are what they were.
C6_DamageFrame ==
    (last.cmd = "damage" /\ last.result = "ok") =>
        LET r == ResolveIndex(last.args[1], prePcs, preMobs) IN
        /\ Len(pcs) = Len(prePcs) /\ Len(mobs) = Len(preMobs)
        /\ ~BadIndex(last.args[1], prePcs, preMobs) =>
              r = (IF last.args[1].v <= Len(prePcs)
                   THEN [kind |-> "pc", pos |-> last.args[1].v]
                   ELSE [kind |-> "mob", pos |-> last.args[1].v - Len(prePcs)])
        /\ \A i \in 1..Len(pcs) :
              /\ SameCounters(pcs[i], prePcs[i])
              /\ SameButHit(pcs[i], prePcs[i])
              /\ (r # [kind |-> "pc", pos |-> i]) => SameCore(pcs[i], prePcs[i])
        /\ \A i \in 1..Len(mobs) :
              /\ SameButHit(mobs[i], preMobs[i])
              /\ (r # [kind |-> "mob", pos |-> i]) => mobs[i] = preMobs[i]

\* reached: plain damage on a PC that already had damage counted
C6_Witness ==
    /\ last.cmd = "damage" /\ last.result = "ok"
    /\ ~BadIndex(last.args[1], prePcs, preMobs)
    /\ last.args[1].v <= Len(pcs)
    /\ last.args[2].v > 0
    /\ pcs[last.args[1].v].hp = prePcs[last.args[1].v].hp - last.args[2].v
    /\ pcs[last.args[1].v].damage_taken > 0
    /\ pcs[last.args[1].v].damage_dealt > 0

----------------------------------------------------------------------------
(* Experience accounting properties *)

Alive(p) == {i \in 1..Len(p) : p[i].status = "Alive"}

RECURSIVE TakenOver(_, _)
\* damage_taken summed over a set of positions of p
TakenOver(p, S) ==
    IF S = {} THEN 0
    ELSE LET i == CHOOSE j \in S : TRUE IN p[i].damage_taken + TakenOver(p, S \ {i})

XpZero(pc) ==
    /\ pc.xp_damage_taken = 0 /\ pc.xp_damage_dealt = 0
    /\ pc.xp_bonus = 0 /\ pc.total_xp = 0

\* b = floor(x / n) for n > 0
IsFloor(b, x, n) == b * n <= x /\ x < (b + 1) * n

\* the XP fields of pc are what the formulas give on the list p
XpAsSpecified(pc, p) ==
    IF pc.status = "Defeated" THEN XpZero(pc)
    ELSE /\ pc.xp_damage_taken = 20 * pc.damage_taken
         /\ pc.xp_damage_dealt = 10 * pc.damage_dealt
         /\ IsFloor(pc.xp_bonus, 20 * TakenOver(p, Alive(p)), Cardinality(Alive(p)))
         /\ pc.total_xp = pc.xp_damage_taken + pc.xp_damage_dealt + pc.xp_bonus

\* the command handled last ended with _recalculate_xp
Recomputed(l) ==
    /\ l.result = "ok"
    /\ \/ l.cmd \in {"damage", "combat", "reset"}
       \/ l.cmd = "xp" /\ LowerWord(l.args[1]) \in {"", "calculate"}

\* C7: after a recomputation a Defeated PC has all four XP fields at 0 and
\* an Alive PC has xp_damage_taken = 20 * damage_taken, xp_damage_dealt =
\* 10 * damage_dealt, xp_bonus = floor(20 * (damage_taken summed over Alive
\* PCs) / (number of Alive PCs)) and total_xp their sum; a lone Alive PC
\* with damage_taken 10 and damage_dealt 0 gets 200, 0, 200 and 400.
C7_XpFormulas ==
    Recomputed(last) =>
        \A i \in 1..Len(pcs) :
            /\ XpAsSpecified(pcs[i], pcs)
            /\ (/\ Alive(pcs) = {i}
                /\ pcs[i].damage_taken = 10 /\ pcs[i].damage_dealt = 0)
                  => (/\ pcs[i].xp_damage_taken = 200 /\ pcs[i].xp_damage_dealt = 0
                      /\ pcs[i].xp_bonus = 200 /\ pcs[i].total_xp = 400)

\* reached: the lone Alive PC of the example, beside Defeated PCs
C7_Witness ==
    /\ Recomputed(last)
    /\ Len(pcs) = 3
    /\ Alive(pcs) = {1}
    /\ pcs[1].damage_taken = 10 /\ pcs[1].damage_dealt = 0
    /\ pcs[1].total_xp = 400

\* the XP fields of a PC
XpFields(pc) == <<pc.xp_damage_taken, pc.xp_damage_dealt, pc.xp_bonus, pc.total_xp>>

\* C8: right after a successful damage or combat command the XP fields of
\* every PC are the recomputation of the state the command left: a PC the
\* command has just Defeated has all four at 0 and its damage_taken is not
\* in the bonus of the Alive PCs.
C8_XpFreshAfterHit ==
    Hit =>
        /\ pcs = RecalculateXp(pcs)
        /\ \A i \in 1..Len(pcs) :
              IF pcs[i].status = "Defeated" THEN XpFields(pcs[i]) = <<0, 0, 0, 0>>
              ELSE pcs[i].xp_bonus =
                       (20 * TakenOver(pcs, Alive(pcs))) \div Cardinality(Alive(pcs))

\* reached: a combat Defeated a PC whose damage_taken is positive; its XP is
\* 0 and the bonus of a PC that stays Alive fell to 0
C8_Witness ==
    /\ last.cmd = "combat" /\ last.result = "ok"
    /\ \E i \in 1..Len(pcs), j \in 1..Len(pcs) :
          /\ prePcs[i].status = "Alive" /\ pcs[i].status = "Defeated"
          /\ prePcs[i].total_xp > 0
          /\ pcs[i].damage_taken > 0 /\ pcs[i].total_xp = 0
          /\ pcs[j].status = "Alive"
          /\ prePcs[j].xp_bonus > 0 /\ pcs[j].xp_bonus = 0

\* C9: after reset every PC has damage_dealt = damage_taken = 0 and all four
\* XP fields at 0; name, hp, max_hp, min_hp, status, stunned, morale and
\* morale_status of every PC, and every mob, are what they were.
C9_Reset ==
    last.cmd = "reset" =>
        /\ last.result = "ok"
        /\ mobs = preMobs
        /\ Len(pcs) = Len(prePcs)
        /\ \A i \in 1..Len(pcs) :
              /\ pcs[i].damage_dealt = 0 /\ pcs[i].damage_taken = 0
              /\ XpZero(pcs[i])
              /\ SameCore(pcs[i], prePcs[i])

\* reached: a reset that found counted damage and XP
C9_Witness ==
    /\ last.cmd = "reset"
    /\ \E i \in 1..Len(pcs) :
          /\ prePcs[i].damage_taken > 0 /\ prePcs[i].total_xp > 0
          /\ pcs[i].hp < pcs[i].max_hp
          /\ pcs[i].total_xp = 0

\* C10: a recomputation that directly follows a recomputation changes no XP
\* field of any PC.
C10_RecomputeIdempotent ==
    [][(Recomputed(last) /\ last'.cmd = "xp" /\ Recomputed(last'))
          => /\ Len(pcs') = Len(pcs)
             /\ \A i \in 1..Len(pcs) : XpFields(pcs'[i]) = XpFields(pcs[i])]_vars

\* reached: `xp` ran on XP fields that are not all 0 and left them alone
C10_Witness ==
    /\ last.cmd = "xp" /\ Recomputed(last)
    /\ pcs = prePcs
    /\ \E i \in 1..Len(pcs) : pcs[i].xp_bonus > 0 /\ pcs[i].xp_damage_dealt > 0

----------------------------------------------------------------------------
(* Morale check properties *)

\* the command handled last is a check of the given type on a valid index
Checked(check_type) ==
    /\ last.cmd = "check" /\ last.args # <<>>
    /\ LowerWord(last.args[1].text) = check_type
    /\ ~BadIndex(last.args[2], prePcs, preMobs)

\* the combatant a check resolved, before and after, and the 2d6 roll
CheckBefore == EntityAt(prePcs, preMobs, last.args[2].v)
CheckAfter == EntityAt(pcs, mobs, last.args[2].v)
CheckRoll == last.args[3].v

\* every combatant other than the one at valid index i is what it was
OthersSame(i) ==
    /\ Len(pcs) = Len(prePcs) /\ Len(mobs) = Len(preMobs)
    /\ \A j \in 1..Total(pcs, mobs) :
          j # i => EntityAt(pcs, mobs, j) = EntityAt(prePcs, preMobs, j)

\* C11: for every combatant and every 2d6 roll r in 2..12, a boldness check
\* with r >= morale makes morale min(12, morale + 1) (one more, capped at
\* 12) and leaves morale_status as it was; with r < morale it sets
\* morale_status to Routed and leaves morale as it was.
C11_Boldness ==
    Checked("boldness") =>
        /\ last.result = "ok"
        /\ CheckRoll \in 2..12
        /\ OthersSame(last.args[2].v)
        /\ IF CheckRoll >= CheckBefore.morale
           THEN /\ CheckAfter.morale = Min2(12, CheckBefore.morale + 1)
                /\ CheckBefore.morale < 12 => CheckAfter.morale = CheckBefore.morale + 1
                /\ CheckAfter.morale_status = CheckBefore.morale_status
           ELSE /\ CheckAfter.morale_status = "Routed"
                /\ CheckAfter.morale = CheckBefore.morale

\* reached: a boldness check passed by a combatant whose morale was already
\* 12, which stays 12
C11_Witness ==
    /\ Checked("boldness")
    /\ CheckBefore.morale = 12 /\ CheckRoll = 12
    /\ CheckAfter.morale = 12

\* C12: a rally check on a combatant whose morale_status is Normal changes
\* nothing, whatever the dice would show, and succeeds; on a Panicked or
\* Routed combatant a roll r >= morale sets morale_status to Normal and a
\* roll r < morale leaves it as it was; rally never changes morale.
C12_Rally ==
    Checked("rally") =>
        /\ last.result = "ok"
        /\ OthersSame(last.args[2].v)
        /\ CheckAfter.morale = CheckBefore.morale
        /\ IF CheckBefore.morale_status = "Normal" THEN CheckAfter = CheckBefore
           ELSE IF CheckRoll >= CheckBefore.morale
                THEN CheckAfter = [CheckBefore EXCEPT !.morale_status = "Normal"]
                ELSE CheckAfter = CheckBefore

\* reached: a Routed combatant rallied on a roll equal to its morale
C12_Witness ==
    /\ Checked("rally")
    /\ CheckBefore.morale_status = "Routed"
    /\ CheckRoll = CheckBefore.morale
    /\ CheckAfter.morale_status = "Normal"

\* the value a braveness or panic check compares against morale
Compared == IF LowerWord(last.args[1].text) = "panic" THEN CheckRoll + 2 ELSE CheckRoll

\* C13: a braveness check compares the roll r, a panic check r + 2, against
\* morale: when the compared value is >= morale no field changes, otherwise
\* morale_status becomes Panicked; morale is unchanged either way, so a panic
\* check at morale <= 4 and a braveness check at morale 2 change nothing.
C13_BravenessPanic ==
    (Checked("braveness") \/ Checked("panic")) =>
        /\ last.result = "ok"
        /\ OthersSame(last.args[2].v)
        /\ CheckAfter.morale = CheckBefore.morale
        /\ IF Compared >= CheckBefore.morale THEN CheckAfter = CheckBefore
           ELSE CheckAfter = [CheckBefore EXCEPT !.morale_status = "Panicked"]
        /\ (Checked("panic") /\ CheckBefore.morale <= 4) => CheckAfter = CheckBefore
        /\ (Checked("braveness") /\ CheckBefore.morale = 2) => CheckAfter = CheckBefore

\* reached: a panic check at morale 4 held on the lowest roll, 2, thanks to
\* the +2, on a combatant that was not Panicked
C13_Witness ==
    /\ Checked("panic")
    /\ CheckRoll = 2 /\ CheckBefore.morale = 4
    /\ CheckBefore.morale_status = "Normal" /\ CheckAfter.morale_status = "Normal"

----------------------------------------------------------------------------
(* Index resolution and roster properties *)

\* every combatant other than the one at valid index i keeps its name, hp,
\* max_hp, min_hp, status, stunned, morale and morale_status
OthersSameCore(i) ==
    /\ Len(pcs) = Len(prePcs) /\ Len(mobs) = Len(preMobs)
    /\ \A j \in 1..Total(pcs, mobs) :
          j # i => SameCore(EntityAt(pcs, mobs, j), EntityAt(prePcs, preMobs, j))

\* a command with index arguments, all in [1, total], has succeeded
Indexed(cmd) ==
    /\ last.cmd = cmd /\ last.result = "ok"
    /\ \A tok \in IndexTokens : ~BadIndex(tok, prePcs, preMobs)

\* a PC has just been added
AddedPc ==
    /\ last.cmd = "add" /\ last.result = "ok"
    /\ Len(pcs) = Len(prePcs) + 1

\* C14: with every index in [1, total], damage, combat, check, set, unstun
\* and remove act on the combatant at that index when the PCs are counted
\* first and the mobs after them, and on no other; adding a PC leaves the
\* mobs as they are, so that each mob's index is one more than it was.
C14_IndexResolution ==
    /\ Indexed("damage") =>
          /\ OthersSameCore(last.args[1].v)
          /\ EntityAt(pcs, mobs, last.args[1].v).hp
                = EntityAt(prePcs, preMobs, last.args[1].v).hp - last.args[2].v
    /\ Indexed("combat") =>
          /\ OthersSameCore(last.args[2].v)
          /\ EntityAt(pcs, mobs, last.args[2].v).hp
                = EntityAt(prePcs, preMobs, last.args[2].v).hp - last.args[3].v
          /\ \A i \in 1..Len(pcs) :
                (pcs[i].damage_dealt # prePcs[i].damage_dealt) => last.args[1].v = i
    /\ (Indexed("check") \/ Indexed("set")) => OthersSameCore(last.args[2].v)
    /\ Indexed("unstun") =>
          /\ OthersSameCore(last.args[1].v)
          /\ ~EntityAt(pcs, mobs, last.args[1].v).stunned
    /\ Indexed("remove") =>
          IF last.args[1].v <= Len(prePcs)
          THEN pcs = RemoveAt(prePcs, last.args[1].v) /\ mobs = preMobs
          ELSE pcs = prePcs /\ mobs = RemoveAt(preMobs, last.args[1].v - Len(prePcs))
    /\ AddedPc =>
          /\ mobs = preMobs
          /\ \A k \in 1..Len(mobs) :
                EntityAt(pcs, mobs, Len(prePcs) + k + 1) = EntityAt(prePcs, preMobs, Len(prePcs) + k)

\* reached: after a PC was added, index 5 is the first mob, and a hit on
\* index 5 took its hp
C14_Witness ==
    /\ Indexed("damage")
    /\ Len(prePcs) = 4 /\ last.args[1].v = 5 /\ last.args[2].v > 0
    /\ mobs[1].hp = preMobs[1].hp - last.args[2].v
    /\ mobs[2] = preMobs[2]

\* a combatant has just been added; the list it joined, before and after
Added == last.cmd = "add" /\ last.args # <<>> /\ last.result = "ok"
AddedKind == IF Len(pcs) > Len(prePcs) THEN "pc" ELSE "mob"
AddedTo == IF AddedKind = "pc" THEN pcs ELSE mobs
AddedToBefore == IF AddedKind = "pc" THEN prePcs ELSE preMobs
AddedName == TitleName(last.args[1].text)
NewOne == AddedTo[Len(AddedTo)]

\* the combatants of the list that have the added name as their first word
Matching(list) ==
    {i \in 1..Len(list) :
        /\ Len(AddedName) = 1
        /\ LowerWord(list[i].name[1]) = LowerWord(AddedName[1])}

\* C15: an add under name N, with k combatants of the same kind that have N
\* as the first word of their name (case-insensitive): k = 0 names the new
\* one N; k >= 1 names it "N <k+1>", and when k = 1 and the match has no
\* suffix the match becomes "N 1"; nothing else of that kind is renamed and
\* the other kind is neither counted nor renamed.
C15_AddNaming ==
    Added =>
        LET k == Cardinality(Matching(AddedToBefore)) IN
        /\ Len(AddedTo) = Len(AddedToBefore) + 1
        /\ IF AddedKind = "pc" THEN mobs = preMobs ELSE pcs = prePcs
        /\ NewOne.name = IF k = 0 THEN AddedName ELSE Append(AddedName, NumText(k + 1))
        /\ \A i \in 1..Len(AddedToBefore) :
              /\ AddedTo[i] = [AddedToBefore[i] EXCEPT !.name = AddedTo[i].name]
              /\ AddedTo[i].name =
                    IF k = 1 /\ i \in Matching(AddedToBefore) /\ Len(AddedToBefore[i].name) = 1
                    THEN Append(AddedName, "1")
                    ELSE AddedToBefore[i].name

\* reached: a second Orc joined the mobs, which now hold "Orc 1" and
\* "Orc 2", while the PC called "Orc" kept its name
C15_Witness ==
    /\ Added /\ AddedKind = "mob"
    /\ NewOne.name = <<"Orc", "2">>
    /\ \E i \in 1..Len(mobs) : mobs[i].name = <<"Orc", "1">> /\ preMobs[i].name = <<"Orc">>
    /\ \E j \in 1..Len(pcs) : pcs[j].name = <<"Orc">>

\* C16: when the dice expression of an add cannot be rolled, no combatant is
\* created, none is renamed or otherwise changed, both lists keep length and
\* order, and the command ends with an error and no refresh.
C16_AddDiceFailure ==
    (last.cmd = "add" /\ last.args # <<>> /\ ~last.args[2].ok) =>
        /\ Unchanged
        /\ last.result = "error"

\* reached: the dice failed on an add of a second Goblin after other adds;
\* the mob called "Goblin" kept its name
C16_Witness ==
    /\ last.cmd = "add" /\ last.args # <<>> /\ ~last.args[2].ok
    /\ last.result = "error"
    /\ mobs[1].name = <<"Goblin">> /\ LowerWord(last.args[1].text) = "goblin"
    /\ Total(pcs, mobs) > 6

\* the tokens typed after the dice expression of the add handled last, the
\* kind they ask for, and the morale token if there is one
AddTokens == last.args[3]
KindGiven == AddTokens # <<>> /\ LowerWord(AddTokens[1].text) \in {"pc", "mob"}
RequestedKind == IF KindGiven THEN LowerWord(AddTokens[1].text) ELSE "mob"
MoraleTokens == IF KindGiven THEN Tail(AddTokens) ELSE AddTokens

\* C17: a successful add whose dice gave h appends exactly one combatant at
\* the end of the list of the requested kind (the mobs when none is given),
\* with max_hp = hp = h, Alive, not stunned, morale_status Normal; an integer
\* morale argument m gives morale min(12, max(2, m)), no morale argument
\* gives 7 to a mob and 9 to a PC.  `add Orc 2d6 pc 15` with a roll of 9
\* creates the PC "Orc" with hp 9 and morale 12.
C17_AddCreates ==
    (last.cmd = "add" /\ last.args # <<>> /\ last.args[2].ok) =>
        /\ last.result = "ok"
        /\ AddedKind = RequestedKind
        /\ Len(AddedTo) = Len(AddedToBefore) + 1
        /\ Total(pcs, mobs) = Total(prePcs, preMobs) + 1
        /\ NewOne.max_hp = last.args[2].v /\ NewOne.hp = last.args[2].v
        /\ NewOne.status = "Alive" /\ ~NewOne.stunned
        /\ NewOne.morale_status = "Normal"
        /\ (MoraleTokens # <<>> /\ MoraleTokens[1].isnum)
              => NewOne.morale = Min2(12, Max2(2, MoraleTokens[1].v))
        /\ MoraleTokens = <<>>
              => NewOne.morale = (IF RequestedKind = "pc" THEN 9 ELSE 7)
        /\ (/\ last.args[1].text = "Orc" /\ last.args[2].v = 9
            /\ AddTokens = <<Word("pc"), Num(15)>>
            /\ Matching(prePcs) = {})
              => (/\ Len(pcs) = Len(prePcs) + 1
                  /\ pcs[Len(pcs)].name = <<"Orc">>
                  /\ pcs[Len(pcs)].hp = 9 /\ pcs[Len(pcs)].morale = 12)

\* reached: `add Orc 2d6 pc 15` rolled 9 on a roster with a mob called Orc
\* and no such PC
C17_Witness ==
    /\ Added
    /\ last.args = <<Word("Orc"), HpOk(9), <<Word("pc"), Num(15)>>>>
    /\ \E i \in 1..Len(mobs) : mobs[i].name = <<"Orc">>
    /\ pcs[Len(pcs)].name = <<"Orc">>
    /\ pcs[Len(pcs)].hp = 9 /\ pcs[Len(pcs)].morale = 12

\* C18: an add whose morale argument is not an integer still creates the
\* combatant and gives it the default morale of its kind: 7 for a mob, 9 for
\* a PC.
C18_AddBadMorale ==
    (/\ last.cmd = "add" /\ last.args # <<>> /\ last.args[2].ok
     /\ MoraleTokens # <<>> /\ ~MoraleTokens[1].isnum) =>
        /\ last.result = "ok"
        /\ Len(AddedTo) = Len(AddedToBefore) + 1
        /\ AddedKind = RequestedKind
        /\ NewOne.morale = (IF RequestedKind = "pc" THEN 9 ELSE 7)

----------------------------------------------------------------------------
(* Properties of `set` and of the dispatcher *)

\* the `set` handled last had an index in [1, total]
SetOnValid ==
    /\ last.cmd = "set" /\ last.args # <<>>
    /\ ~BadIndex(last.args[2], prePcs, preMobs)

SetProperty == LowerWord(last.args[1].text)
SetLiteral == LowerWord(last.args[3].text)

\* the value typed is one the named property accepts
SetValueValid ==
    CASE SetProperty \in {"morale", "min_hp"} -> last.args[3].isnum
      [] SetProperty = "stunned" ->
            SetLiteral \in {"true", "yes", "1", "on", "false", "no", "0", "off"}
      [] SetProperty = "morale_status" -> SetLiteral \in {"normal", "panicked", "routed"}
      [] SetProperty = "status" -> SetLiteral \in {"alive", "defeated"}
      [] OTHER -> FALSE

\* y is x but for the field the `set` names (the history field aside)
SameButNamed(x, y) ==
    LET z == [y EXCEPT !.everLow = x.everLow] IN
    CASE SetProperty = "morale" -> z = [x EXCEPT !.morale = y.morale]
      [] SetProperty = "min_hp" -> z = [x EXCEPT !.min_hp = y.min_hp]
      [] SetProperty = "stunned" -> z = [x EXCEPT !.stunned = y.stunned]
      [] SetProperty = "morale_status" -> z = [x EXCEPT !.morale_status = y.morale_status]
      [] SetProperty = "status" -> z = [x EXCEPT !.status = y.status]
      [] OTHER -> z = x

\* C19: a `set` with an index in [1, total] changes at most the named field
\* (morale, min_hp, stunned, morale_status or status) of the combatant at
\* that index and nothing of any other; with another property name, or a
\* value the property does not accept (a non-integer for morale and min_hp, a
\* literal outside the list for the others, case ignored), nothing changes
\* and the command ends with an error and no refresh.
C19_SetFrame ==
    SetOnValid =>
        IF SetValueValid
        THEN /\ last.result = "ok"
             /\ OthersSame(last.args[2].v)
             /\ SameButNamed(EntityAt(prePcs, preMobs, last.args[2].v),
                             EntityAt(pcs, mobs, last.args[2].v))
        ELSE /\ last.result = "error"
             /\ Unchanged

\* reached: min_hp of a PC was set above its hp, and its status, hp and XP
\* stayed as they were
C19_Witness ==
    /\ SetOnValid /\ SetProperty = "min_hp" /\ last.result = "ok"
    /\ LET before == EntityAt(prePcs, preMobs, last.args[2].v)
           after == EntityAt(pcs, mobs, last.args[2].v)
       IN /\ after.min_hp = 30 /\ before.min_hp = -10
          /\ after.hp <= after.min_hp
          /\ after.status = "Alive"
          /\ after.damage_taken > 0 /\ after.total_xp = before.total_xp

\* the keys of self.commands that take part in the runs
CommandTable == {"add", "damage", "check", "unstun", "set", "combat", "reset",
                 "remove", "clear", "xp", "help"}

\* the line handled last was empty or began with a token outside the table
NoCommand == last.cmd # "start" /\ last.cmd \notin CommandTable

\* C20: an empty line, or one whose first token is not in the command
\* table, leaves both lists and every combatant as they were; the unknown
\* command is reported and there is no refresh; after either, as after a
\* handler that raised, the dispatcher takes the next line.
C20_NoCommand ==
    /\ NoCommand =>
          /\ Unchanged
          /\ last.result = (IF last.cmd = "" THEN "empty" ELSE "unknown")
    /\ (last.result \in {"empty", "unknown", "exception"} /\ steps < MaxSteps)
          => ENABLED Next

\* reached: an unknown command typed after a command that changed the
\* roster, which stays as that command left it
C20_Witness ==
    /\ NoCommand /\ last.cmd # "" /\ last.result = "unknown"
    /\ Unchanged
    /\ Len(pcs) = 4

----------------------------------------------------------------------------
(* Properties of every state between two commands *)

\* C21: in every reachable state every combatant has an integer morale in
\* [2, 12], a morale_status among Normal, Panicked, Routed and a status
\* among Alive, Defeated, whatever add (any morale argument), set (any
\* value, any letter case) and check commands were typed.
C21_FieldRanges ==
    \A c \in Combatants :
        /\ c.morale \in 2..12
        /\ c.morale_status \in {"Normal", "Panicked", "Routed"}
        /\ c.status \in {"Alive", "Defeated"}

\* reached: `set Morale i 15` left morale 12 on a combatant whose
\* morale_status an upper-case literal had set to Routed
C21_Witness ==
    /\ last.cmd = "set" /\ last.result = "ok"
    /\ last.args[1].text = "Morale" /\ last.args[3].v = 15
    /\ ~BadIndex(last.args[2], prePcs, preMobs)
    /\ EntityAt(pcs, mobs, last.args[2].v).morale = 12
    /\ EntityAt(pcs, mobs, last.args[2].v).morale_status = "Routed"

\* the combatant whose stun the command handled last cleared on request, as
\* <<kind, position>>: the one an `unstun` resolved, or the one a `set
\* stunned` with a false literal resolved
StunCleared ==
    IF last.args = <<>> \/ last.result # "ok" THEN {}
    ELSE IF last.cmd = "unstun"
         THEN LET r == ResolveIndex(last.args[1], prePcs, preMobs) IN {<<r.kind, r.pos>>}
         ELSE IF /\ last.cmd = "set" /\ LowerWord(last.args[1].text) = "stunned"
                 /\ LowerWord(last.args[3].text) \in {"false", "no", "0", "off"}
              THEN LET r == ResolveIndex(last.args[2], prePcs, preMobs) IN {<<r.kind, r.pos>>}
              ELSE {}

\* C22: a stunned combatant is still stunned after any command that leaves
\* it in the roster (damage or combat of any amount, check, reset, xp, add,
\* set of another property, and any command that fails), unless that command
\* is an `unstun` or a `set stunned` with a false literal on that combatant.
C22_StunSticky ==
    last.cmd \notin {"remove", "clear"} =>
        /\ \A i \in 1..Len(prePcs) :
              (prePcs[i].stunned /\ <<"pc", i>> \notin StunCleared)
                 => (i <= Len(pcs) /\ pcs[i].stunned)
        /\ \A i \in 1..Len(preMobs) :
              (preMobs[i].stunned /\ <<"mob", i>> \notin StunCleared)
                 => (i <= Len(mobs) /\ mobs[i].stunned)

\* reached: a stunned combatant with positive hp took a hit of less than a
\* quarter of its hp and is still stunned
C22_Witness ==
    /\ Hit
    /\ ~BadIndex(HitTarget, prePcs, preMobs)
    /\ LET before == EntityAt(prePcs, preMobs, HitTarget.v)
           after == EntityAt(pcs, mobs, HitTarget.v)
       IN /\ before.stunned /\ before.hp > 0
          /\ HitAmount > 0 /\ 4 * HitAmount < before.hp
          /\ after.stunned

\* C23: `remove i` with i in [1, total] deletes exactly the combatant at
\* index i: the total drops by one, only the list of its kind gets
\* shorter, every combatant at an index j < i keeps index j and every one at
\* j > i is now at j - 1, each as it was (name, hp, status, stunned, morale
\* and damage counters included).
C23_RemoveExact ==
    Indexed("remove") =>
        LET i == last.args[1].v IN
        /\ Total(pcs, mobs) = Total(prePcs, preMobs) - 1
        /\ IF i <= Len(prePcs)
           THEN Len(pcs) = Len(prePcs) - 1 /\ Len(mobs) = Len(preMobs)
           ELSE Len(pcs) = Len(prePcs) /\ Len(mobs) = Len(preMobs) - 1
        /\ \A j \in 1..Total(prePcs, preMobs) :
              /\ j < i => EntityAt(pcs, mobs, j) = EntityAt(prePcs, preMobs, j)
              /\ j > i => EntityAt(pcs, mobs, j - 1) = EntityAt(prePcs, preMobs, j)

\* reached: the second of three PCs was removed; the third, which had taken
\* damage, is now second with its hp and counters, and the mobs follow
C23_Witness ==
    /\ Indexed("remove") /\ last.args[1].v = 2
    /\ Len(prePcs) = 3 /\ Len(pcs) = 2
    /\ pcs[2] = prePcs[3] /\ pcs[2].damage_taken > 0 /\ pcs[2].hp < pcs[2].max_hp
    /\ Len(mobs) = 3 /\ mobs = preMobs

\* C24: a check (braveness, boldness, panic or rally, any roll, passed or
\* failed) changes nothing of any combatant but the one it resolves, and of
\* that one at most morale and morale_status: hp, max_hp, min_hp, stunned,
\* status and the damage and XP fields stay; morale changes only when a
\* boldness check is passed.
C24_CheckFrame ==
    (last.cmd = "check" /\ last.args # <<>>
     /\ ~BadIndex(last.args[2], prePcs, preMobs)) =>
        /\ OthersSame(last.args[2].v)
        /\ CheckAfter = [CheckBefore EXCEPT !.morale = CheckAfter.morale,
                                            !.morale_status = CheckAfter.morale_status]
        /\ CheckAfter.morale # CheckBefore.morale
              => (/\ LowerWord(last.args[1].text) = "boldness"
                  /\ CheckRoll >= CheckBefore.morale)

\* reached: a stunned, wounded PC with XP failed a check and became
\* Panicked; its hp, stun, counters and XP are what they were
C24_Witness ==
    /\ last.cmd = "check" /\ last.result = "ok"
    /\ ~BadIndex(last.args[2], prePcs, preMobs)
    /\ last.args[2].v <= Len(pcs)
    /\ CheckBefore.stunned /\ CheckBefore.hp < CheckBefore.max_hp
    /\ CheckBefore.total_xp > 0
    /\ CheckBefore.morale_status = "Normal" /\ CheckAfter.morale_status = "Panicked"
    /\ CheckAfter.total_xp = CheckBefore.total_xp /\ CheckAfter.stunned

\* no two combatants of the list have the same name
DistinctNames(list) ==
    \A i \in 1..Len(list), j \in 1..Len(list) :
        list[i].name = list[j].name => i = j

\* C25: after any sequence of single-word adds and removals from a roster
\* of distinct names, no two PCs have the same name and no two mobs have
\* the same name (also after adding N twice, removing "N 1" and adding N
\* again).
C25_NamesUnique == DistinctNames(pcs) /\ DistinctNames(mobs)

\* C26: in every state between two commands the four XP fields of every PC
\* are what the formulas give on the current roster, statuses and counters
\* (so a Defeated PC shows total_xp = 0), also after `set status`, remove,
\* clear and an add of a PC.
C26_XpNeverStale ==
    \A i \in 1..Len(pcs) : XpAsSpecified(pcs[i], pcs)

\* C27: a Routed combatant is still Routed after a braveness, boldness or
\* panic check, passed or failed.
C27_RoutStays ==
    (/\ Checked("braveness") \/ Checked("boldness") \/ Checked("panic")
     /\ CheckBefore.morale_status = "Routed")
        => CheckAfter.morale_status = "Routed"

====
